---- MODULE Spec2Model ----
(***************************************************************************)
(* A model of bench/MatrixBench.cpp: the MatrixBench base class with its   *)
(* onDraw loop, the five benchmark classes built on it, the global counter *)
(* behind always_do, and the five registered factories.                    *)
(*                                                                         *)
(* Two specifications are given.  Spec follows one benchmark instance      *)
(* through its life: a factory constructs it, onDraw runs performTest N    *)
(* times, the instance is replaced by the next factory call.  SpecConcat   *)
(* studies performTest of the three concat classes as a function of the    *)
(* arrays a, b and r.                                                      *)
(*                                                                         *)
(* Numbers.  SkScalar values are held as integer multiples of 1/SK_Scalar1.*)
(* float and double values are held as integers; an arithmetic result is   *)
(* rounded to the mantissa width of its type (round to nearest, ties to    *)
(* even), so a result that fits the mantissa is exact.                     *)
(***************************************************************************)
EXTENDS Integers, Sequences, FiniteSets, TLC

\* ------------------------------------------------------------------------
\* Program constants and bounds of the model
\* ------------------------------------------------------------------------

\* enum { N = 100000 } of MatrixBench
N == 100000

\* number of onDraw calls followed in one behaviour of Spec
MaxDraws == 1

\* the values an uninitialized SkScalar member may hold are 0..MaxGarbage
\* (and the value 1.5 itself)
MaxGarbage == 0

\* init9 fills an array with one of the value patterns 0..MaxFill
MaxFill == 0

\* the small entries of the input arrays of SpecConcat are 0..MaxVal
MaxVal == 1

\* mantissa widths of float and double
FLT_MANT_DIG == 24
DBL_MANT_DIG == 53

\* the scalar 1 in the integer representation of SkScalar
SK_Scalar1 == 2

Idx9 == 0..8

\* ------------------------------------------------------------------------
\* SkMatrix, as far as the benchmarks use it (row-major, nine scalars)
\* ------------------------------------------------------------------------

SkScalarMul(x, y) == (x * y) \div SK_Scalar1

\* the float literal num/den as an SkScalar
SkFloatToScalar(num, den) == (num * SK_Scalar1) \div den

Mat(m0, m1, m2, m3, m4, m5, m6, m7, m8) ==
    [k \in Idx9 |-> CASE k = 0 -> m0 [] k = 1 -> m1 [] k = 2 -> m2
                      [] k = 3 -> m3 [] k = 4 -> m4 [] k = 5 -> m5
                      [] k = 6 -> m6 [] k = 7 -> m7 [] OTHER -> m8]

\* SkMatrix::reset
reset == Mat(SK_Scalar1, 0, 0,  0, SK_Scalar1, 0,  0, 0, SK_Scalar1)

\* SkMatrix::setScale(sx, sy)
setScale(sx, sy) == Mat(sx, 0, 0,  0, sy, 0,  0, 0, SK_Scalar1)

\* SkMatrix::setTranslate(dx, dy)
setTranslate(dx, dy) == Mat(SK_Scalar1, 0, dx,  0, SK_Scalar1, dy,  0, 0, SK_Scalar1)

\* SkMatrix::preScale(sx, sy): m * setScale(sx, sy)
preScale(m, sx, sy) ==
    Mat(SkScalarMul(m[0], sx), SkScalarMul(m[1], sy), m[2],
        SkScalarMul(m[3], sx), SkScalarMul(m[4], sy), m[5],
        SkScalarMul(m[6], sx), SkScalarMul(m[7], sy), m[8])

\* operator== of SkMatrix
MatEq(m, n) == \A k \in Idx9 : m[k] = n[k]

\* SkMatrix::getType: the mask of translate (1), scale (2), affine (4) and
\* perspective (8) bits; 0 for the identity
getType(m) ==
      (IF m[2] # 0 \/ m[5] # 0 THEN 1 ELSE 0)
    + (IF m[0] # SK_Scalar1 \/ m[4] # SK_Scalar1 THEN 2 ELSE 0)
    + (IF m[1] # 0 \/ m[3] # 0 THEN 4 ELSE 0)
    + (IF m[6] # 0 \/ m[7] # 0 \/ m[8] # SK_Scalar1 THEN 8 ELSE 0)

\* ------------------------------------------------------------------------
\* float and double arithmetic
\* ------------------------------------------------------------------------

Abs(x) == IF x < 0 THEN 0 - x ELSE x

RECURSIVE BitLen(_)
\* number of binary digits of x >= 0
BitLen(x) == IF x = 0 THEN 0 ELSE 1 + BitLen(x \div 2)

\* x >= 0 rounded to a mantissa of p bits, nearest, ties to even
RoundMag(x, p) ==
    IF BitLen(x) <= p THEN x
    ELSE LET ulp == 2 ^ (BitLen(x) - p)
             q   == x \div ulp
             rem == x % ulp
             up  == 2 * rem > ulp \/ (2 * rem = ulp /\ q % 2 = 1)
         IN  (IF up THEN q + 1 ELSE q) * ulp

RoundTo(x, p) == IF x < 0 THEN 0 - RoundMag(0 - x, p) ELSE RoundMag(x, p)

\* a value of type float / double
AsFloat(x) == RoundTo(x, FLT_MANT_DIG)
AsDouble(x) == RoundTo(x, DBL_MANT_DIG)

\* static_cast<float>(x)
SkDoubleToFloat(x) == AsFloat(x)

\* ------------------------------------------------------------------------
\* The benchmark classes
\* ------------------------------------------------------------------------

Classes == {"EqualsMatrixBench", "ScaleMatrixBench", "FloatConcatMatrixBench",
            "FloatDoubleConcatMatrixBench", "DoubleConcatMatrixBench"}

ConcatClasses == {"FloatConcatMatrixBench", "FloatDoubleConcatMatrixBench",
                  "DoubleConcatMatrixBench"}

\* no instance
NoBench == [cls |-> "none"]

\* the constructor with the format "matrix%s"
MatrixBench_NoUnderscore(cls, name) == [cls |-> cls, fName |-> "matrix" \o name]

\* MatrixBench::MatrixBench(param, name): fName.printf("matrix_%s", name)
MatrixBench(cls, name) == [cls |-> cls, fName |-> "matrix_" \o name]

\* MatrixBench::onGetName
onGetName(o) == o.fName

\* EqualsMatrixBench::EqualsMatrixBench
EqualsMatrixBench == MatrixBench("EqualsMatrixBench", "equals") @@ [uninitReads |-> {}]

\* The values an uninitialized SkScalar member may hold.
Garbage == (0..MaxGarbage) \cup {SkFloatToScalar(3, 2)}

\* ScaleMatrixBench::ScaleMatrixBench, statement by statement.  gx and gy are
\* what the storage of fSX and fSY holds when the constructor body starts;
\* assigned is the set of members given a value so far; a member read while
\* not in assigned is recorded in uninitReads.
ScaleMatrixBench(gx, gy) ==
    LET base == MatrixBench("ScaleMatrixBench", "scale")
        \* fM0.reset();
        s1 == [assigned |-> {"fM0"}, fM0 |-> reset, fSX |-> gx, fSY |-> gy,
               uninitReads |-> {}]
        \* fM1.setScale(fSX, fSY);
        s2 == s1 @@ [fM1 |-> setScale(s1.fSX, s1.fSY)]
        a2 == s1.assigned \cup {"fM1"}
        u2 == s1.uninitReads \cup ({"fSX", "fSY"} \ s1.assigned)
        \* fM2.setTranslate(fSX, fSY);
        s3 == s2 @@ [fM2 |-> setTranslate(s2.fSX, s2.fSY)]
        a3 == a2 \cup {"fM2"}
        u3 == u2 \cup ({"fSX", "fSY"} \ a2)
        \* fSX = fSY = SkFloatToScalar(1.5f);
        sxy == SkFloatToScalar(3, 2)
    IN  base @@ [fM0 |-> s3.fM0, fM1 |-> s3.fM1, fM2 |-> s3.fM2,
                 fSX |-> sxy, fSY |-> sxy, uninitReads |-> u3]

\* init9: every call constructs its own SkRandom and fills all nine entries
\* from it; which values come out is left open, one pattern per v
init9(v) == [k \in Idx9 |-> ((v + k) % 3) - 1]

Init9Results == {init9(v) : v \in 0..MaxFill}

\* The constructors of the three concat classes: init9(mya); init9(myb);
\* init9(myr).  The three calls start from equally constructed generators.
ConcatMatrixBench(cls, name, arr) ==
    MatrixBench(cls, name) @@ [mya |-> arr, myb |-> arr, myr |-> arr,
                               uninitReads |-> {}]

FloatConcatMatrixBench(arr) ==
    ConcatMatrixBench("FloatConcatMatrixBench", "concat_floatfloat", arr)

FloatDoubleConcatMatrixBench(arr) ==
    ConcatMatrixBench("FloatDoubleConcatMatrixBench", "concat_floatdouble", arr)

DoubleConcatMatrixBench(arr) ==
    ConcatMatrixBench("DoubleConcatMatrixBench", "concat_double", arr)

\* the macro without its if
always_do_Unconditional(pred, g) == g + 1

\* always_do(pred): the counter after the macro
always_do(pred, g) == IF pred THEN g + 1 ELSE g

\* EqualsMatrixBench::performTest.  The result is the counter and the names
\* of the variables the call stored into.
EqualsPerformTest(g) ==
    LET m0 == reset
        m1 == reset
        m2 == reset
        g1 == always_do(MatEq(m0, m1), g)
        g2 == always_do(MatEq(m1, m2), g1)
        g3 == always_do(MatEq(m2, m0), g2)
        g4 == always_do(getType(m0) # 0, g3)
        g5 == always_do(getType(m1) # 0, g4)
        g6 == always_do(getType(m2) # 0, g5)
    IN  [g |-> g6,
         writes |-> {"m0", "m1", "m2"} \cup
                    (IF g6 # g THEN {"gMatrixBench_NonStaticGlobal"} ELSE {})]

\* ScaleMatrixBench::performTest: the three products go to the local m
ScalePerformTest(o) ==
    LET ma == preScale(o.fM0, o.fSX, o.fSY)
        mb == preScale(o.fM1, o.fSX, o.fSY)
        mc == preScale(o.fM2, o.fSX, o.fSY)
    IN  [o |-> o, m |-> mc, writes |-> {"m"}]

\* FloatConcatMatrixBench::muladdmul
muladdmul_ff(a, b, c, d) == AsFloat(AsFloat(a * b) + AsFloat(c * d))

\* the second product taken with b in place of d
muladdmul_fd_Typo(a, b, c, d) ==
    SkDoubleToFloat(AsDouble(AsDouble(a * b) + AsDouble(c * b)))

\* FloatDoubleConcatMatrixBench::muladdmul
muladdmul_fd(a, b, c, d) ==
    SkDoubleToFloat(AsDouble(AsDouble(a * b) + AsDouble(c * d)))

\* DoubleConcatMatrixBench::muladdmul
muladdmul_dd(a, b, c, d) == AsDouble(AsDouble(a * b) + AsDouble(c * d))

\* the call with b[3] in place of b[4] in the second entry
FloatConcatPerformTest_WrongIndex(a, b, r) ==
    LET r0 == [r  EXCEPT ![0] = a[0] * b[0] + a[1] * b[3]]
        r1 == [r0 EXCEPT ![1] = a[0] * b[1] + a[1] * b[3]]
        r2 == [r1 EXCEPT ![2] = a[0] * b[2] + a[1] * b[5]]
        r3 == [r2 EXCEPT ![2] = @ + a[2]]
        r4 == [r3 EXCEPT ![3] = a[3] * b[0] + a[4] * b[3]]
        r5 == [r4 EXCEPT ![4] = a[3] * b[1] + a[4] * b[4]]
        r6 == [r5 EXCEPT ![5] = a[3] * b[2] + a[4] * b[5]]
        r7 == [r6 EXCEPT ![5] = @ + a[5]]
        r8 == [r7 EXCEPT ![6] = 0, ![7] = 0]
    IN  [r8 EXCEPT ![8] = 1]

\* FloatConcatMatrixBench::performTest: myr after the call
FloatConcatPerformTest(a, b, r) ==
    LET r0 == [r  EXCEPT ![0] = muladdmul_ff(a[0], b[0], a[1], b[3])]
        r1 == [r0 EXCEPT ![1] = muladdmul_ff(a[0], b[1], a[1], b[4])]
        r2 == [r1 EXCEPT ![2] = muladdmul_ff(a[0], b[2], a[1], b[5])]
        r3 == [r2 EXCEPT ![2] = AsFloat(@ + a[2])]
        r4 == [r3 EXCEPT ![3] = muladdmul_ff(a[3], b[0], a[4], b[3])]
        r5 == [r4 EXCEPT ![4] = muladdmul_ff(a[3], b[1], a[4], b[4])]
        r6 == [r5 EXCEPT ![5] = muladdmul_ff(a[3], b[2], a[4], b[5])]
        r7 == [r6 EXCEPT ![5] = AsFloat(@ + a[5])]
        r8 == [r7 EXCEPT ![6] = 0, ![7] = 0]
    IN  [r8 EXCEPT ![8] = 1]

\* FloatDoubleConcatMatrixBench::performTest: myr after the call
FloatDoubleConcatPerformTest(a, b, r) ==
    LET r0 == [r  EXCEPT ![0] = muladdmul_fd(a[0], b[0], a[1], b[3])]
        r1 == [r0 EXCEPT ![1] = muladdmul_fd(a[0], b[1], a[1], b[4])]
        r2 == [r1 EXCEPT ![2] = muladdmul_fd(a[0], b[2], a[1], b[5])]
        r3 == [r2 EXCEPT ![2] = AsFloat(@ + a[2])]
        r4 == [r3 EXCEPT ![3] = muladdmul_fd(a[3], b[0], a[4], b[3])]
        r5 == [r4 EXCEPT ![4] = muladdmul_fd(a[3], b[1], a[4], b[4])]
        r6 == [r5 EXCEPT ![5] = muladdmul_fd(a[3], b[2], a[4], b[5])]
        r7 == [r6 EXCEPT ![5] = AsFloat(@ + a[5])]
        r8 == [r7 EXCEPT ![6] = 0, ![7] = 0]
    IN  [r8 EXCEPT ![8] = 1]

\* the call without r[2] += a[2]
DoubleConcatPerformTest_NoTranslateX(a, b, r) ==
    LET r0 == [r  EXCEPT ![0] = a[0] * b[0] + a[1] * b[3]]
        r1 == [r0 EXCEPT ![1] = a[0] * b[1] + a[1] * b[4]]
        r2 == [r1 EXCEPT ![2] = a[0] * b[2] + a[1] * b[5]]
        r4 == [r2 EXCEPT ![3] = a[3] * b[0] + a[4] * b[3]]
        r5 == [r4 EXCEPT ![4] = a[3] * b[1] + a[4] * b[4]]
        r6 == [r5 EXCEPT ![5] = a[3] * b[2] + a[4] * b[5]]
        r7 == [r6 EXCEPT ![5] = @ + a[5]]
        r8 == [r7 EXCEPT ![6] = 0, ![7] = 0]
    IN  [r8 EXCEPT ![8] = 1]

\* DoubleConcatMatrixBench::performTest: myr after the call
DoubleConcatPerformTest(a, b, r) ==
    LET r0 == [r  EXCEPT ![0] = muladdmul_dd(a[0], b[0], a[1], b[3])]
        r1 == [r0 EXCEPT ![1] = muladdmul_dd(a[0], b[1], a[1], b[4])]
        r2 == [r1 EXCEPT ![2] = muladdmul_dd(a[0], b[2], a[1], b[5])]
        r3 == [r2 EXCEPT ![2] = AsDouble(@ + a[2])]
        r4 == [r3 EXCEPT ![3] = muladdmul_dd(a[3], b[0], a[4], b[3])]
        r5 == [r4 EXCEPT ![4] = muladdmul_dd(a[3], b[1], a[4], b[4])]
        r6 == [r5 EXCEPT ![5] = muladdmul_dd(a[3], b[2], a[4], b[5])]
        r7 == [r6 EXCEPT ![5] = AsDouble(@ + a[5])]
        r8 == [r7 EXCEPT ![6] = 0, ![7] = 0]
    IN  [r8 EXCEPT ![8] = 1]

\* performTest of the concat class cls
ConcatPerformTest(cls, a, b, r) ==
    CASE cls = "FloatConcatMatrixBench" -> FloatConcatPerformTest(a, b, r)
      [] cls = "FloatDoubleConcatMatrixBench" -> FloatDoubleConcatPerformTest(a, b, r)
      [] OTHER -> DoubleConcatPerformTest(a, b, r)

\* ------------------------------------------------------------------------
\* The life of a benchmark instance
\* ------------------------------------------------------------------------

VARIABLES
    gReg,                          \* the registered factories, in order
    bench,                         \* the live instance, or NoBench
    pc,                            \* "idle", or "onDraw" inside the loop
    i,                             \* the loop variable of onDraw
    gMatrixBench_NonStaticGlobal,  \* the counter always_do increments
    tests,                         \* per class, performTest calls of the
                                   \* current (or last) onDraw
    lastWrites,                    \* what the last performTest stored into
    lastDrawn,                     \* class of the instance whose onDraw has
                                   \* returned, "none" once onDraw is entered
    madeBy,                        \* the factory that made the live instance
    draws,                         \* onDraw calls that have returned
    equalsDraws,                   \* ... on an EqualsMatrixBench
    mya, myb,                      \* SpecConcat: the input arrays
    myr,                           \* SpecConcat: per concat class, its myr
    done                           \* SpecConcat: classes whose performTest ran

benchVars == <<gReg, bench, pc, i, gMatrixBench_NonStaticGlobal, tests,
               lastWrites, lastDrawn, madeBy, draws, equalsDraws>>
concatVars == <<mya, myb, myr, done>>
vars == <<benchVars, concatVars>>

NoTests == [c \in Classes |-> 0]

\* static BenchRegistry gReg0(M0) ... gReg4(M4)
BenchRegistry == <<"M0", "M1", "M2", "M3", "M4">>

Registered(f) == \E j \in 1..Len(gReg) : gReg[j] = f

\* the state once the static initializers have run
BenchInit ==
    /\ gReg = BenchRegistry
    /\ bench = NoBench
    /\ pc = "idle"
    /\ i = 0
    /\ gMatrixBench_NonStaticGlobal = 0
    /\ tests = NoTests
    /\ lastWrites = {}
    /\ lastDrawn = "none"
    /\ madeBy = "none"
    /\ draws = 0
    /\ equalsDraws = 0

ConcatIdle ==
    /\ mya = init9(0)
    /\ myb = init9(0)
    /\ myr = [c \in ConcatClasses |-> init9(0)]
    /\ done = {}

Init == BenchInit /\ ConcatIdle

\* a call of the registered factory f hands out the new instance o
Made(f, o) ==
    /\ pc = "idle"
    /\ Registered(f)
    /\ bench' = o
    /\ madeBy' = f
    /\ UNCHANGED <<gReg, pc, i, gMatrixBench_NonStaticGlobal, tests, lastWrites,
                   lastDrawn, draws, equalsDraws>>
    /\ UNCHANGED concatVars

M0 == Made("M0", EqualsMatrixBench)

M1 == \E gx, gy \in Garbage : Made("M1", ScaleMatrixBench(gx, gy))

M2 == \E v \in 0..MaxFill : Made("M2", FloatConcatMatrixBench(init9(v)))

M3 == \E v \in 0..MaxFill : Made("M3", FloatDoubleConcatMatrixBench(init9(v)))

M4 == \E v \in 0..MaxFill : Made("M4", DoubleConcatMatrixBench(init9(v)))

\* MatrixBench::onDraw is entered: int i = 0
OnDrawEnter ==
    /\ pc = "idle"
    /\ bench.cls \in Classes
    /\ draws < MaxDraws
    /\ pc' = "onDraw"
    /\ i' = 0
    /\ tests' = NoTests
    /\ lastWrites' = {}
    /\ lastDrawn' = "none"
    /\ UNCHANGED <<gReg, bench, gMatrixBench_NonStaticGlobal, madeBy, draws,
                   equalsDraws>>
    /\ UNCHANGED concatVars

\* the loop condition i <= N
LoopCond_OffByOne(k) == k <= N

\* the loop condition of onDraw
LoopCond(k) == k < N

\* one turn of the loop of onDraw on an instance of class cls:
\* this->performTest(); i++
LoopTurn(cls) ==
    /\ pc = "onDraw"
    /\ LoopCond(i)
    /\ bench.cls = cls
    /\ i' = i + 1
    /\ tests' = [tests EXCEPT ![cls] = @ + 1]
    /\ UNCHANGED <<gReg, pc, lastDrawn, madeBy, draws, equalsDraws>>
    /\ UNCHANGED concatVars

EqualsTest ==
    /\ LoopTurn("EqualsMatrixBench")
    /\ LET res == EqualsPerformTest(gMatrixBench_NonStaticGlobal)
       IN  /\ gMatrixBench_NonStaticGlobal' = res.g
           /\ lastWrites' = res.writes
    /\ UNCHANGED bench

ScaleTest ==
    /\ LoopTurn("ScaleMatrixBench")
    /\ LET res == ScalePerformTest(bench)
       IN  /\ bench' = res.o
           /\ lastWrites' = res.writes
    /\ UNCHANGED gMatrixBench_NonStaticGlobal

\* performTest of a concat instance stores into its member array myr
ConcatTest(cls) ==
    /\ LoopTurn(cls)
    /\ bench' = [bench EXCEPT !.myr = ConcatPerformTest(cls, bench.mya, bench.myb, @)]
    /\ lastWrites' = {"myr"}
    /\ UNCHANGED gMatrixBench_NonStaticGlobal

FloatConcatTest == ConcatTest("FloatConcatMatrixBench")

FloatDoubleConcatTest == ConcatTest("FloatDoubleConcatMatrixBench")

DoubleConcatTest == ConcatTest("DoubleConcatMatrixBench")

\* the loop of onDraw is left and onDraw returns
OnDrawReturn ==
    /\ pc = "onDraw"
    /\ ~ LoopCond(i)
    /\ pc' = "idle"
    /\ lastDrawn' = bench.cls
    /\ draws' = draws + 1
    /\ equalsDraws' = IF bench.cls = "EqualsMatrixBench" THEN equalsDraws + 1
                      ELSE equalsDraws
    /\ UNCHANGED <<gReg, bench, i, gMatrixBench_NonStaticGlobal, tests, lastWrites,
                   madeBy>>
    /\ UNCHANGED concatVars

Next ==
    \/ M0
    \/ M1
    \/ M2
    \/ M3
    \/ M4
    \/ OnDrawEnter
    \/ EqualsTest
    \/ ScaleTest
    \/ FloatConcatTest
    \/ FloatDoubleConcatTest
    \/ DoubleConcatTest
    \/ OnDrawReturn

Spec == Init /\ [][Next]_vars

\* ------------------------------------------------------------------------
\* performTest of the concat classes as a function of a, b and r
\* ------------------------------------------------------------------------

\* a float that the square of no longer fits the mantissa of a float
BigVal == 2 ^ (FLT_MANT_DIG \div 2) + 1

Zero9 == [k \in Idx9 |-> 0]

\* the entries of the first two rows
TopVals == {0 - 1} \cup (1..MaxVal) \cup {BigVal}

\* first two rows: at most one entry is not 0
Tops == {Zero9} \cup {[Zero9 EXCEPT ![k] = v] : k \in 0..5, v \in TopVals}

\* all nine entries: a last row with at most one entry not 0 is added
Arrays9 == {[t EXCEPT ![k] = v] : t \in Tops, k \in 6..8, v \in 0..MaxVal}

\* what myr may hold before the call
PriorR == {[k \in Idx9 |-> v + k] : v \in 0..MaxVal}

ConcatInit ==
    /\ BenchInit
    /\ mya \in Arrays9
    /\ myb \in Arrays9
    /\ \E r \in PriorR : myr = [c \in ConcatClasses |-> r]
    /\ done = {}

\* one call of performTest on the instance of class cls
ConcatCall(cls) ==
    /\ myr' = [myr EXCEPT ![cls] = ConcatPerformTest(cls, mya, myb, @)]
    /\ done' = done \cup {cls}
    /\ UNCHANGED <<mya, myb>>
    /\ UNCHANGED benchVars

FloatConcatCall == ConcatCall("FloatConcatMatrixBench")

FloatDoubleConcatCall == ConcatCall("FloatDoubleConcatMatrixBench")

DoubleConcatCall == ConcatCall("DoubleConcatMatrixBench")

ConcatNext ==
    \/ FloatConcatCall
    \/ FloatDoubleConcatCall
    \/ DoubleConcatCall

SpecConcat == ConcatInit /\ [][ConcatNext]_vars

\* ------------------------------------------------------------------------
\* Properties of onDraw, the registry and the counter (under Spec)
\* ------------------------------------------------------------------------

OnlyClass(cls, n) == [c \in Classes |-> IF c = cls THEN n ELSE 0]

C1_Inv ==
    /\ pc = "onDraw" =>
          /\ bench.cls \in Classes
          /\ i <= N
          /\ tests = OnlyClass(bench.cls, i)
          /\ i < N => ENABLED LoopTurn(bench.cls)
          /\ i = N => ENABLED OnDrawReturn
    /\ lastDrawn # "none" =>
          /\ pc = "idle"
          /\ tests = OnlyClass(lastDrawn, N)

C1_Step ==
    pc = "onDraw" =>
        \/ i < N /\ pc' = "onDraw" /\ i' = i + 1
        \/ i = N /\ pc' = "idle" /\ lastDrawn' = bench.cls

\* C1: one call of onDraw invokes performTest of the instance's own class,
\* and of no other class, N = 100000 times one after the other and then
\* returns.  Inside onDraw exactly i calls have been made, i never exceeds
\* N, the next turn (while i < N) or the return (when i = N) is possible, and
\* every step either makes call i + 1 or returns: the loop cannot run forever.
C1_OnDraw == []C1_Inv /\ [][C1_Step]_vars

C1_Witness ==
    /\ lastDrawn = "ScaleMatrixBench"
    /\ pc = "idle"
    /\ tests["ScaleMatrixBench"] = N

\* the variables local to a performTest
Locals == {"m0", "m1", "m2", "m"}

\* C2: every call of performTest increments the global counter or stores
\* into a member of the benchmark object; none stores into local variables
\* only.
C2_Claim == lastWrites # {} => lastWrites \ Locals # {}

FactoryClass(f) ==
    CASE f = "M0" -> "EqualsMatrixBench"
      [] f = "M1" -> "ScaleMatrixBench"
      [] f = "M2" -> "FloatConcatMatrixBench"
      [] f = "M3" -> "FloatDoubleConcatMatrixBench"
      [] OTHER -> "DoubleConcatMatrixBench"

ExpectedName(cls) ==
    CASE cls = "EqualsMatrixBench" -> "matrix_equals"
      [] cls = "ScaleMatrixBench" -> "matrix_scale"
      [] cls = "FloatConcatMatrixBench" -> "matrix_concat_floatfloat"
      [] cls = "FloatDoubleConcatMatrixBench" -> "matrix_concat_floatdouble"
      [] OTHER -> "matrix_concat_double"

C4_Inv ==
    /\ Len(gReg) = 5
    /\ \A j, k \in 1..Len(gReg) : gReg[j] = gReg[k] => j = k
    /\ bench.cls \in Classes =>
          /\ Registered(madeBy)
          /\ bench.cls = FactoryClass(madeBy)
          /\ onGetName(bench) = ExpectedName(bench.cls)
          /\ \A c \in Classes \ {bench.cls} : onGetName(bench) # ExpectedName(c)

C4_Stable ==
    (pc = "onDraw" \/ pc' = "onDraw") => onGetName(bench') = onGetName(bench)

\* C4: five factories are registered, each makes instances of its own
\* class, onGetName of an instance is "matrix_" followed by the name its
\* constructor passes on, the five names differ, and no step of onDraw
\* changes the name.
C4_Names == []C4_Inv /\ [][C4_Stable]_vars

C4_Witness ==
    /\ lastDrawn = "FloatDoubleConcatMatrixBench"
    /\ bench.cls = "FloatDoubleConcatMatrixBench"
    /\ madeBy = "M3"
    /\ onGetName(bench) = "matrix_concat_floatdouble"

\* C6: no constructor reads a member before it is assigned; when the
\* constructor of ScaleMatrixBench builds fM1 and fM2, fSX and fSY hold 1.5,
\* so fM1 scales by (1.5, 1.5) and fM2 translates by (1.5, 1.5).
C6_Claim ==
    bench.cls \in Classes =>
        /\ bench.uninitReads = {}
        /\ bench.cls = "ScaleMatrixBench" =>
              /\ bench.fM1 = setScale(SkFloatToScalar(3, 2), SkFloatToScalar(3, 2))
              /\ bench.fM2 = setTranslate(SkFloatToScalar(3, 2), SkFloatToScalar(3, 2))

C8_Inv ==
    gMatrixBench_NonStaticGlobal =
        3 * N * equalsDraws
        + (IF pc = "onDraw" /\ bench.cls = "EqualsMatrixBench" THEN 3 * i ELSE 0)

C8_Step ==
    /\ gMatrixBench_NonStaticGlobal' >= gMatrixBench_NonStaticGlobal
    /\ i' = i + 1 =>
          gMatrixBench_NonStaticGlobal' - gMatrixBench_NonStaticGlobal
              = (IF bench.cls = "EqualsMatrixBench" THEN 3 ELSE 0)

Fits(x) == Abs(x) < 2 ^ FLT_MANT_DIG

\* every product and sum the call forms is exactly representable
ExactInputs ==
    \A row \in 0..1, col \in 0..2 :
        LET p == mya[3 * row] * myb[col]
            q == mya[3 * row + 1] * myb[3 + col]
        IN  /\ Fits(p)
            /\ Fits(q)
            /\ Fits(p + q)
            /\ col = 2 => Fits(p + q + mya[3 * row + 2])

\* the product of two row-major 3x3 matrices
MatMul3(a, b) ==
    [k \in Idx9 |->
        LET row == k \div 3
            col == k % 3
        IN  a[3 * row] * b[col] + a[3 * row + 1] * b[3 + col]
              + a[3 * row + 2] * b[6 + col]]

LastRowAffine(m) == m[6] = 0 /\ m[7] = 0 /\ m[8] = 1

\* C3 as stated: after performTest the result is the full product a * b.
C3_FullProduct ==
    \A c \in done : ExactInputs => myr[c] = MatMul3(mya, myb)

\* C3, amended: when the last rows of a and b are (0, 0, 1), the result of
\* performTest of each concat class is the full 3x3 product a * b.
C3_AffineProduct ==
    \A c \in done :
        ExactInputs /\ LastRowAffine(mya) /\ LastRowAffine(myb)
            => myr[c] = MatMul3(mya, myb)

C3_Witness ==
    /\ done = ConcatClasses
    /\ ExactInputs
    /\ LastRowAffine(mya)
    /\ LastRowAffine(myb)
    /\ mya[0] # 0
    /\ myb[2] # 0
    /\ myr["DoubleConcatMatrixBench"][2] = mya[0] * myb[2]

\* the non-perspective case of setConcat, written out
AffineConcat(a, b) ==
    Mat(a[0] * b[0] + a[1] * b[3],
        a[0] * b[1] + a[1] * b[4],
        a[0] * b[2] + a[1] * b[5] + a[2],
        a[3] * b[0] + a[4] * b[3],
        a[3] * b[1] + a[4] * b[4],
        a[3] * b[2] + a[4] * b[5] + a[5],
        0, 0, 1)

C7_SameResult ==
    ExactInputs => \A c1, c2 \in done : myr[c1] = myr[c2]

C7_Witness ==
    /\ done = ConcatClasses
    /\ ExactInputs
    /\ mya[4] * myb[5] # 0
    /\ myr["FloatConcatMatrixBench"][5] = mya[4] * myb[5]
    /\ myr["FloatDoubleConcatMatrixBench"] = myr["DoubleConcatMatrixBench"]

====
